---------------------------- MODULE Spec2Model ----------------------------
(***************************************************************************)
(* leelo: a persisted table of Elo ratings (src/src/lib.rs, main.rs).      *)
(*                                                                         *)
(* f64 values are modelled in fixed point: a rating or a score x is the    *)
(* integer x * ONE.  Sums, differences and products by K are exact on this *)
(* grid; quotients and exp are truncated to it, so results that f64 gives  *)
(* up to its rounding are given here up to a few grid units.               *)
(***************************************************************************)
EXTENDS Integers, Sequences, FiniteSets, TLC

(* ------------------------------ bounds --------------------------------- *)

\* Number of `game` invocations started in one behaviour.
MaxGames == 2

\* Terms of the series that stands for f64::exp.
ExpTerms == 10

\* Half-width, in grid steps, of the rating grid the Elo engine is run on.
GridSpan == 4

\* Distance between two points of that grid, in rating points.
GridStep == 25

\* Rounding slack allowed between two results that are equal as reals,
\* in units of 1/ONE rating points.
Tol == 160

(* --------------------------- fixed point -------------------------------- *)

\* The f64 value 1.
ONE == 10000

\* const INITIAL_RATING: f64 = 1000.;
INITIAL_RATING == 1000 * ONE

\* const RATING_CONST: f64 = 182.047845;  (rounded to the grid)
RATING_CONST == 1820478

\* const K: f64 = 40.;  (a whole number: K * x is exact on the grid)
K == 40

\* The f64 value 0.5.
HALF == ONE \div 2

RECURSIVE Pow10(_)
Pow10(n) == IF n = 0 THEN 1 ELSE 10 * Pow10(n - 1)

\* Decimal digits of ONE.
Digits == 4

\* digit-by-digit quotient of r / b, 0 <= r < b, to `n` decimal places
RECURSIVE FracDigits(_, _, _)
FracDigits(r, b, n) ==
    IF n = 0 THEN 0
    ELSE ((r * 10) \div b) * Pow10(n - 1) + FracDigits((r * 10) % b, b, n - 1)

\* f64 division x / y for y > 0: floor(x * ONE / y), computed without
\* forming x * ONE.
FDiv(x, y) == (x \div y) * ONE + FracDigits(x % y, y, Digits)

\* partial sum  acc + sum_{i >= n} term_i  of the exponential series,
\* term_i = term_{i-1} * y / i
RECURSIVE ExpSeries(_, _, _, _)
ExpSeries(y, n, term, acc) ==
    IF n > ExpTerms THEN acc
    ELSE LET t == (term * y) \div (n * ONE)
         IN  ExpSeries(y, n + 1, t, acc + t)

\* f64::exp
Exp(y) == ExpSeries(y, 1, ONE, ONE)

(* ---------------------------- Elo engine -------------------------------- *)

MatchResult == {"WhiteWin", "BlackWin", "Draw"}

\* Fault: the `+ 1.` falls outside the quotient.
white_score_expected_slip(rating_difference) ==
    FDiv(ONE, Exp(FDiv(-rating_difference, RATING_CONST))) + ONE

\* let white_score_expected = 1. / (f64::exp(-rating_difference / RATING_CONST) + 1.);
white_score_expected(rating_difference) ==
    FDiv(ONE, Exp(FDiv(-rating_difference, RATING_CONST)) + ONE)

\* Fault: black is given white's expected score.
black_score_expected_copy(rating_difference) ==
    white_score_expected(rating_difference)

\* let black_score_expected = 1. - white_score_expected;
black_score_expected(rating_difference) ==
    ONE - white_score_expected(rating_difference)

\* Fault: the scores of the two decisive results are exchanged.
scores_swapped(result) ==
    CASE result = "WhiteWin" -> <<0, ONE>>
      [] result = "BlackWin" -> <<ONE, 0>>
      [] result = "Draw"     -> <<HALF, HALF>>

\* let (white_score, black_score) = match result { ... }
scores(result) ==
    CASE result = "WhiteWin" -> <<ONE, 0>>
      [] result = "BlackWin" -> <<0, ONE>>
      [] result = "Draw"     -> <<HALF, HALF>>

\* lines 161-174 of update_ratings: the two new ratings
new_ratings(white_rating, black_rating, result) ==
    LET rating_difference   == white_rating - black_rating
        white_rating_change == K * (scores(result)[1] - white_score_expected(rating_difference))
        black_rating_change == K * (scores(result)[2] - black_score_expected(rating_difference))
    IN  <<white_rating + white_rating_change, black_rating + black_rating_change>>


(* ---------------------------- RatingTable ------------------------------- *)

\* HashMap::new()
EmptyTable == [x \in {} |-> 0]

\* HashMap::insert: adds the key or overwrites its value
Insert(table, id, rating) ==
    [x \in (DOMAIN table) \cup {id} |-> IF x = id THEN rating ELSE table[x]]

\* Err(msg.into()) and Ok(()) of a function that owns `&mut data`
Err(msg, table) == [ok |-> FALSE, err |-> msg, data |-> table]
Ok(table) == [ok |-> TRUE, err |-> "", data |-> table]

\* Fault: a plain insert, which resets a player the table holds.
create_player_overwrite(player_id, data) ==
    Ok(Insert(data, player_id, INITIAL_RATING))

\* Fault: a new player is seeded with 200, not INITIAL_RATING.
create_player_seed200(player_id, data) ==
    IF player_id \in DOMAIN data
    THEN Err("player_id already in use.", data)
    ELSE Ok(Insert(data, player_id, 200 * ONE))

\* fn create_player
create_player(player_id, data) ==
    IF player_id \in DOMAIN data
    THEN Err("player_id already in use.", data)
    ELSE Ok(Insert(data, player_id, INITIAL_RATING))

\* Fault: a black player the table does not hold is taken to be a new one.
update_ratings_default(white_player_id, black_player_id, result, data) ==
    IF white_player_id \notin DOMAIN data THEN Err("white player not found.", data)
    ELSE LET black_rating == IF black_player_id \in DOMAIN data
                             THEN data[black_player_id] ELSE INITIAL_RATING
             new == new_ratings(data[white_player_id], black_rating, result)
         IN  Ok(Insert(Insert(data, white_player_id, new[1]), black_player_id, new[2]))

\* fn update_ratings
update_ratings(white_player_id, black_player_id, result, data) ==
    IF white_player_id \notin DOMAIN data THEN Err("white player not found.", data)
    ELSE IF black_player_id \notin DOMAIN data THEN Err("black player not found.", data)
    ELSE LET new == new_ratings(data[white_player_id], data[black_player_id], result)
         IN  Ok(Insert(Insert(data, white_player_id, new[1]), black_player_id, new[2]))

(* ------------------------------ Config ---------------------------------- *)

ParseErr(msg) == [ok |-> FALSE, err |-> msg]

\* Config::new, the `game` score token
parse_result(token) ==
    CASE token = "1-0"     -> <<"WhiteWin">>
      [] token = "0-1"     -> <<"BlackWin">>
      [] token = "0.5-0.5" -> <<"Draw">>
      [] OTHER             -> <<>>

\* Config::new(args)
Config_new(args) ==
    IF Len(args) < 2 THEN ParseErr("not enough arguments. Try leelo help.")
    ELSE LET command == args[2] IN
      CASE command \in {"help", "h"} ->
             [ok |-> TRUE, filename |-> <<>>, operation |-> [kind |-> "Help"]]
        [] command \in {"new", "n"} ->
             IF Len(args) < 3 THEN ParseErr("not enough arguments for this command.")
             ELSE [ok |-> TRUE, filename |-> <<args[3]>>, operation |-> [kind |-> "New"]]
        [] command \in {"player", "p"} ->
             IF Len(args) < 4 THEN ParseErr("not enough arguments for this command.")
             ELSE [ok |-> TRUE, filename |-> <<args[4]>>,
                   operation |-> [kind |-> "AddPlayer", player_id |-> args[3]]]
        [] command \in {"game", "g"} ->
             IF Len(args) < 6 THEN ParseErr("not enough arguments for this command.")
             ELSE IF parse_result(args[5]) = <<>>
                  THEN ParseErr("unable to interpret score argument.")
                  ELSE [ok |-> TRUE, filename |-> <<args[6]>>,
                        operation |-> [kind |-> "Update",
                                       white_player_id |-> args[3],
                                       black_player_id |-> args[4],
                                       result |-> parse_result(args[5])[1]]]
        [] command \in {"view", "v"} ->
             IF Len(args) < 3 THEN ParseErr("not enough arguments for this command.")
             ELSE [ok |-> TRUE, filename |-> <<args[3]>>, operation |-> [kind |-> "View"]]
        [] OTHER -> ParseErr("unknown command. Try leelo help.")

(* ------------------------------ the file -------------------------------- *)

\* The table file: whether it exists, whether the header row is in it, its
\* data rows <<player_id, rating>> in file order, and whether its bytes are
\* the overlay of two writers (garbled).  A rating is written in the
\* shortest decimal form that reads back as the same f64, so a row holds
\* the rating itself.
NoFile == [exists |-> FALSE, header |-> FALSE, rows |-> <<>>, garbled |-> FALSE]

FileOf(rows) == [exists |-> TRUE, header |-> TRUE, rows |-> rows, garbled |-> FALSE]

\* the loop of read_to_hashmap: insert every row in file order
RECURSIVE ToMap(_)
ToMap(rows) ==
    IF rows = <<>> THEN EmptyTable
    ELSE LET n == Len(rows)
         IN  Insert(ToMap(SubSeq(rows, 1, n - 1)), rows[n][1], rows[n][2])

Restrict(table, S) == [x \in S |-> table[x]]

\* fn read_to_hashmap: the results it can return on file f.  The header row
\* is skipped; a file that is missing cannot be opened; what a garbled file
\* parses to is not determined.
read_to_hashmap(f) ==
    IF ~f.exists THEN {Err("No such file or directory", EmptyTable)}
    ELSE IF f.garbled
         THEN {Err("CSV deserialize error", EmptyTable)}
              \cup {Ok(Restrict(ToMap(f.rows), S)) : S \in SUBSET DOMAIN ToMap(f.rows)}
         ELSE {Ok(ToMap(f.rows))}

\* Fault: the file is opened for appending, not truncated.
create_file_append(f) == [f EXCEPT !.exists = TRUE]

\* Writer::from_path: File::create truncates the file (or creates it)
create_file(f) == [exists |-> TRUE, header |-> FALSE, rows |-> <<>>, garbled |-> FALSE]

\* wtr.serialize(record) + wtr.flush(): the row reaches the file, and with
\* the first flush the buffered header row
write_record(f, player_id, rating, torn) ==
    [f EXCEPT !.header = TRUE,
              !.rows = Append(@, <<player_id, rating>>),
              !.garbled = @ \/ torn]

\* Fault: every arm that loads the table writes it back.
saves_all(kind) == kind \in {"New", "Update", "AddPlayer", "View"}

\* run: the arms that end in write_to_csv
saves(kind) == kind \in {"New", "Update", "AddPlayer"}

\* run: the arms that begin with read_to_hashmap
loads(kind) == kind \in {"Update", "AddPlayer", "View"}

\* run: the in-memory step of an arm, between its load and its save
mutate(operation, data) ==
    CASE operation.kind = "Update" ->
           update_ratings(operation.white_player_id, operation.black_player_id,
                          operation.result, data)
      [] operation.kind = "AddPlayer" -> create_player(operation.player_id, data)
      [] OTHER -> Ok(data)

\* run: the `?` after the in-memory step: an Err returns at once, an Ok
\* goes on to write_to_csv in the arms that save
after_mutate(r, kind) == IF r.ok /\ saves(kind) THEN "write" ELSE "done"

(* ------------------------------- state ---------------------------------- *)

\* Invocations of the program that may be alive at once.
Procs == {1, 2}

\* Words a command line is built from.
IdArgs == {"", "Alice", "Bob"}
ScoreArgs == {"1-0", "0-1", "0.5-0.5", "2-0"}
FileArg == "t.csv"

\* env::args() of one invocation
CmdLines ==
    {<<"leelo">>, <<"leelo", "help">>, <<"leelo", "rank", FileArg>>,
     <<"leelo", "new">>, <<"leelo", "new", FileArg>>, <<"leelo", "v", FileArg>>,
     <<"leelo", "view", FileArg>>, <<"leelo", "player", FileArg>>}
    \cup {<<"leelo", "player", id, FileArg>> : id \in IdArgs}
    \cup {<<"leelo", "game", w, b, s, FileArg>> : w \in IdArgs, b \in IdArgs, s \in ScoreArgs}

VARIABLES
    file,      \* the table file named by every command line
    handles,   \* open write handles: who wrote since the last truncation (wrote),
               \* and whose handle is older than it with bytes written (stale)
    pc,        \* per invocation: where run() is
    config,    \* per invocation: the Config parsed from its command line
    data,      \* per invocation: the HashMap `data` of run()
    pending,   \* per invocation: entries write_to_csv has yet to iterate over
    status,    \* per invocation: "running", "ok", or the error it exits with
    before,    \* history: the file when the invocation started
    loaded,    \* history: the table the invocation read
    log,       \* history: the file accesses, in order
    games,     \* `game` invocations started
    elo        \* the Elo engine run on its own: inputs and result

vars == <<file, handles, pc, config, data, pending, status, before, loaded, log, games, elo>>

procvars == <<file, handles, pc, config, data, pending, status, before, loaded, log, games>>

Idle == [ok |-> FALSE, err |-> "not started"]

NoElo == [white |-> 0, black |-> 0, result |-> "Draw", out |-> EmptyTable, computed |-> FALSE]

ProcInit ==
    /\ handles = [wrote |-> {}, stale |-> {}]
    /\ pc = [p \in Procs |-> "idle"]
    /\ config = [p \in Procs |-> Idle]
    /\ data = [p \in Procs |-> EmptyTable]
    /\ pending = [p \in Procs |-> {}]
    /\ status = [p \in Procs |-> "idle"]
    /\ before = [p \in Procs |-> NoFile]
    /\ loaded = [p \in Procs |-> EmptyTable]
    /\ log = <<>>
    /\ games = 0

\* No table file yet: `leelo new` creates it.
Init == file = NoFile /\ ProcInit /\ elo = NoElo

kind(p) == config[p].operation.kind

(* ------------------------------ actions --------------------------------- *)

\* main: Config::new(&args); a parse error is printed and the process exits
\* with status 1 before run() is called
Invoke(p) ==
    /\ pc[p] = "idle"
    /\ \E args \in CmdLines :
         LET c == Config_new(args)
             game == c.ok /\ c.operation.kind = "Update"
         IN  /\ game => games < MaxGames
             /\ games' = IF game THEN games + 1 ELSE games
             /\ config' = [config EXCEPT ![p] = c]
             /\ pc' = [pc EXCEPT ![p] = IF c.ok THEN "run" ELSE "done"]
             /\ status' = [status EXCEPT ![p] = IF c.ok THEN "running" ELSE c.err]
    /\ before' = [before EXCEPT ![p] = file]
    /\ data' = [data EXCEPT ![p] = EmptyTable]
    /\ UNCHANGED <<file, handles, pending, loaded, log, elo>>

\* run: Operation::Help
Help(p) ==
    /\ pc[p] = "run" /\ kind(p) = "Help"
    /\ pc' = [pc EXCEPT ![p] = "done"]
    /\ status' = [status EXCEPT ![p] = "ok"]
    /\ UNCHANGED <<file, handles, config, data, pending, before, loaded, log, games, elo>>

\* run: Operation::New, up to write_to_csv
New(p) ==
    /\ pc[p] = "run" /\ kind(p) = "New"
    /\ pc' = [pc EXCEPT ![p] = "write"]
    /\ UNCHANGED <<file, handles, config, data, pending, status, before, loaded, log, games, elo>>

\* run: read_to_hashmap(&filename, &mut data)?
Load(p) ==
    /\ pc[p] = "run" /\ loads(kind(p))
    /\ \E r \in read_to_hashmap(file) :
         /\ data' = [data EXCEPT ![p] = r.data]
         /\ loaded' = [loaded EXCEPT ![p] = r.data]
         /\ pc' = [pc EXCEPT ![p] = IF r.ok THEN "loaded" ELSE "done"]
         /\ status' = [status EXCEPT ![p] = IF r.ok THEN "running" ELSE r.err]
    /\ log' = Append(log, <<p, "load">>)
    /\ UNCHANGED <<file, handles, config, pending, before, games, elo>>

\* the in-memory step of an arm and the `?` after it
Step(p) ==
    LET r == mutate(config[p].operation, data[p])
    IN  /\ data' = [data EXCEPT ![p] = r.data]
        /\ pc' = [pc EXCEPT ![p] = after_mutate(r, kind(p))]
        /\ status' = [status EXCEPT ![p] =
                        IF ~r.ok THEN r.err
                        ELSE IF after_mutate(r, kind(p)) = "done" THEN "ok" ELSE "running"]
        /\ UNCHANGED <<file, handles, config, pending, before, loaded, log, games, elo>>

\* run: Operation::Update: update_ratings(white, black, result, &mut data)?
Update(p) == pc[p] = "loaded" /\ kind(p) = "Update" /\ Step(p)

\* run: Operation::AddPlayer: create_player(player_id, &mut data)?
AddPlayer(p) == pc[p] = "loaded" /\ kind(p) = "AddPlayer" /\ Step(p)

\* run: Operation::View: sort by rating, print; nothing is stored
View(p) == pc[p] = "loaded" /\ kind(p) = "View" /\ Step(p)

\* write_to_csv: Writer::from_path(filename)?
WriteOpen(p) ==
    /\ pc[p] = "write"
    /\ file' = create_file(file)
    /\ handles' = [wrote |-> {},
                   stale |-> {q \in (handles.stale \cup handles.wrote) \ {p} :
                                pc[q] = "writing"}]
    /\ pending' = [pending EXCEPT ![p] = DOMAIN data[p]]
    /\ pc' = [pc EXCEPT ![p] = "writing"]
    /\ log' = Append(log, <<p, "open">>)
    /\ UNCHANGED <<config, data, status, before, loaded, games, elo>>

\* p's bytes land on bytes of another writer, or past the end of a file
\* truncated under its handle
Torn(p) == p \in handles.stale \/ handles.wrote \ {p} # {}

\* write_to_csv: one turn of the loop over data.iter(), in the map's order
WriteRow(p) ==
    /\ pc[p] = "writing"
    /\ \E id \in pending[p] :
         /\ file' = write_record(file, id, data[p][id], Torn(p))
         /\ pending' = [pending EXCEPT ![p] = @ \ {id}]
    /\ handles' = [handles EXCEPT !.wrote = @ \cup {p}]
    /\ UNCHANGED <<pc, config, data, status, before, loaded, log, games, elo>>

\* write_to_csv returns Ok(()): the writer is dropped, which flushes the
\* header row if no record was flushed before
WriteClose(p) ==
    /\ pc[p] = "writing" /\ pending[p] = {}
    /\ IF DOMAIN data[p] = {}
       THEN /\ file' = [file EXCEPT !.header = TRUE, !.garbled = @ \/ Torn(p)]
            /\ handles' = [handles EXCEPT !.wrote = @ \cup {p}]
       ELSE UNCHANGED <<file, handles>>
    /\ pc' = [pc EXCEPT ![p] = "done"]
    /\ status' = [status EXCEPT ![p] = "ok"]
    /\ log' = Append(log, <<p, "close">>)
    /\ UNCHANGED <<config, data, pending, before, loaded, games, elo>>

\* the process has exited; the next invocation starts afresh
Exit(p) ==
    /\ pc[p] = "done"
    /\ pc' = [pc EXCEPT ![p] = "idle"]
    /\ config' = [config EXCEPT ![p] = Idle]
    /\ data' = [data EXCEPT ![p] = EmptyTable]
    /\ status' = [status EXCEPT ![p] = "idle"]
    /\ before' = [before EXCEPT ![p] = NoFile]
    /\ loaded' = [loaded EXCEPT ![p] = EmptyTable]
    /\ log' = <<>>
    /\ UNCHANGED <<file, handles, pending, games, elo>>

Run(p) ==
    \/ Invoke(p) \/ Help(p) \/ New(p) \/ Load(p) \/ Update(p) \/ AddPlayer(p)
    \/ View(p) \/ WriteOpen(p) \/ WriteRow(p) \/ WriteClose(p)

\* One invocation at a time, one after the other.
Next == Run(1) \/ Exit(1)

Spec == Init /\ [][Next]_vars

\* Two invocations on the same file, each run once, interleaved at will,
\* on a table that `new` and two `player` invocations leave behind.
ConcInit ==
    /\ file \in {FileOf(<<>>),
                 FileOf(<<<<"Alice", INITIAL_RATING>>, <<"Bob", INITIAL_RATING>>>>)}
    /\ ProcInit
    /\ elo = NoElo

ConcNext == \E p \in Procs : Run(p)

ConcSpec == ConcInit /\ [][ConcNext]_vars

(* ------------------------ the Elo engine alone --------------------------- *)

\* Ratings the engine is run on: INITIAL_RATING and points around it.
Grid == {INITIAL_RATING + k * GridStep * ONE : k \in (0 - GridSpan)..GridSpan}

\* The table of a match: Alice plays white, Bob plays black.
MatchTable(white_rating, black_rating) ==
    Insert(Insert(EmptyTable, "Alice", white_rating), "Bob", black_rating)

EloInit ==
    /\ file = NoFile
    /\ ProcInit
    /\ elo \in {[white |-> a, black |-> b, result |-> r,
                 out |-> EmptyTable, computed |-> FALSE] :
                a \in Grid, b \in Grid, r \in MatchResult}

\* update_ratings on the two-player table of elo
Match ==
    /\ ~elo.computed
    /\ elo' = [elo EXCEPT
                 !.out = update_ratings("Alice", "Bob", elo.result,
                                        MatchTable(elo.white, elo.black)).data,
                 !.computed = TRUE]
    /\ UNCHANGED procvars

EloNext == Match

EloSpec == EloInit /\ [][EloNext]_vars

(* ------------------------------ helpers --------------------------------- *)

Abs(x) == IF x < 0 THEN 0 - x ELSE x

RECURSIVE Sum(_)
Sum(table) ==
    IF DOMAIN table = {} THEN 0
    ELSE LET id == CHOOSE x \in DOMAIN table : TRUE
         IN  table[id] + Sum(Restrict(table, DOMAIN table \ {id}))

\* position of the first event e in the log, 0 if it is not there
Pos(e) ==
    IF \E i \in 1..Len(log) : log[i] = e
    THEN CHOOSE i \in 1..Len(log) : log[i] = e /\ \A j \in 1..(i - 1) : log[j] # e
    ELSE 0

\* invocation p never opened the file for writing
NoSave(p) == Pos(<<p, "open">>) = 0

\* invocation p has ended, and it was the given operation on an existing table
Ended(p, k) == pc[p] = "done" /\ config[p].ok /\ kind(p) = k /\ before[p].exists

Ids(f) == DOMAIN ToMap(f.rows)

\* the other colour's win
Flip(result) ==
    CASE result = "WhiteWin" -> "BlackWin"
      [] result = "BlackWin" -> "WhiteWin"
      [] OTHER -> "Draw"

(* ------------------------------- claims --------------------------------- *)

\* C1: a `game` naming a player the table does not hold fails with the
\* white/black "player not found" error, leaves the loaded table as it was,
\* opens nothing for writing, and leaves the file as it was before.
C1_UnknownPlayerRejected ==
    \A p \in Procs :
      LET o == config[p].operation IN
      (/\ Ended(p, "Update")
       /\ (o.white_player_id \notin Ids(before[p]) \/ o.black_player_id \notin Ids(before[p])))
      => /\ status[p] = IF o.white_player_id \notin Ids(before[p])
                        THEN "white player not found."
                        ELSE "black player not found."
         /\ data[p] = ToMap(before[p].rows)
         /\ NoSave(p)
         /\ file = before[p]

\* C1 witness: white is in a table that a game has already changed, black is not
C1_Witness ==
    /\ Ended(1, "Update")
    /\ config[1].operation.white_player_id \in Ids(before[1])
    /\ config[1].operation.black_player_id \notin Ids(before[1])
    /\ data[1][config[1].operation.white_player_id] # INITIAL_RATING
    /\ status[1] = "black player not found."

\* C2: `player` with an identifier the table holds fails with "player_id
\* already in use.", keeps that player's rating and every other entry, opens
\* nothing for writing, and leaves the file as it was before.
C2_DuplicateRejected ==
    \A p \in Procs :
      (Ended(p, "AddPlayer") /\ config[p].operation.player_id \in Ids(before[p]))
      => /\ status[p] = "player_id already in use."
         /\ data[p] = ToMap(before[p].rows)
         /\ NoSave(p)
         /\ file = before[p]

\* C2 witness: the rejected identifier holds a rating other than the initial one
C2_Witness ==
    /\ Ended(1, "AddPlayer")
    /\ config[1].operation.player_id \in Ids(before[1])
    /\ ToMap(file.rows)[config[1].operation.player_id] # INITIAL_RATING
    /\ status[1] = "player_id already in use."

\* C3: the update is zero-sum: the new ratings add up to the old ones, the
\* white change is the negative of the black change, the expected scores
\* add up to 1 and so do the observed scores.
C3_ZeroSum ==
    elo.computed =>
      LET d == elo.white - elo.black IN
      /\ elo.out["Alice"] + elo.out["Bob"] = elo.white + elo.black
      /\ elo.out["Alice"] - elo.white = 0 - (elo.out["Bob"] - elo.black)
      /\ white_score_expected(d) + black_score_expected(d) = ONE
      /\ scores(elo.result)[1] + scores(elo.result)[2] = ONE

\* C3 witness: an upset between unequal players has moved their ratings
C3_Witness ==
    /\ elo.computed
    /\ elo.white > elo.black
    /\ elo.result = "BlackWin"
    /\ elo.out["Alice"] < elo.white - (K \div 2) * ONE

\* C4: between equal ratings each side expects 0.5, so a draw changes
\* nothing, a white win gives +20 / -20 and a black win -20 / +20; from
\* 1000 and 1000 a white win gives 1020 and 980.
C4_EvenMatch ==
    (elo.computed /\ elo.white = elo.black) =>
      /\ white_score_expected(0) = HALF
      /\ black_score_expected(0) = HALF
      /\ elo.result = "Draw" =>
           elo.out = MatchTable(elo.white, elo.black)
      /\ elo.result = "WhiteWin" =>
           elo.out = MatchTable(elo.white + 20 * ONE, elo.black - 20 * ONE)
      /\ elo.result = "BlackWin" =>
           elo.out = MatchTable(elo.white - 20 * ONE, elo.black + 20 * ONE)

\* C4 witness: Alice and Bob at 1000, `game Alice Bob 1-0`: 1020 and 980
C4_Witness ==
    /\ elo.computed
    /\ elo.white = 1000 * ONE /\ elo.black = 1000 * ONE
    /\ elo.result = "WhiteWin"
    /\ elo.out = MatchTable(1020 * ONE, 980 * ONE)

\* Two tables over the same players whose ratings agree up to rounding.
Close(t, u) ==
    /\ DOMAIN t = DOMAIN u
    /\ \A id \in DOMAIN t : Abs(t[id] - u[id]) <= Tol

\* C5: the same match with the colours swapped and the outcome flipped
\* gives both players the same new ratings (equal as reals, so equal up to
\* rounding): who is nominally white has no effect.
C5_Antisymmetric ==
    elo.computed =>
      Close(elo.out,
            update_ratings("Bob", "Alice", Flip(elo.result),
                           MatchTable(elo.white, elo.black)).data)

\* C5 witness: a decisive game between unequal players
C5_Witness ==
    /\ elo.computed
    /\ elo.white < elo.black
    /\ elo.result = "WhiteWin"
    /\ elo.out["Alice"] > elo.white + (K \div 2) * ONE

\* C6: `player` with an identifier the table does not hold succeeds, and
\* the file then holds the table as it was plus that identifier at
\* INITIAL_RATING: one row more, every old entry kept.
C6_PlayerAdded ==
    \A p \in Procs :
      (Ended(p, "AddPlayer") /\ config[p].operation.player_id \notin Ids(before[p]))
      => /\ status[p] = "ok"
         /\ file.exists /\ file.header /\ ~file.garbled
         /\ ToMap(file.rows) = Insert(ToMap(before[p].rows),
                                      config[p].operation.player_id, INITIAL_RATING)
         /\ ToMap(file.rows)[config[p].operation.player_id] = 1000 * ONE
         /\ Len(file.rows) = Len(before[p].rows) + 1

\* C6 witness: a player is added to a table that holds a changed rating
C6_Witness ==
    /\ Ended(1, "AddPlayer")
    /\ status[1] = "ok"
    /\ \E id \in Ids(before[1]) : ToMap(before[1].rows)[id] # INITIAL_RATING

\* C7: `view` and `help`, ended well or with an error, have opened nothing
\* for writing and leave the file as it was before.
C7_ReadOnly ==
    \A p \in Procs :
      (pc[p] = "done" /\ config[p].ok /\ kind(p) \in {"View", "Help"})
      => NoSave(p) /\ file = before[p]

\* C7 witness: a `view` of a table with players has ended well
C7_Witness ==
    /\ Ended(1, "View")
    /\ status[1] = "ok"
    /\ file.rows # <<>>

\* C8 (as claimed): between invocations the ratings in the file add up to
\* 1000 times the number of players, the two identifiers of a match being
\* free to coincide.
C8_TotalConserved ==
    (pc[1] \in {"idle", "done"} /\ file.exists)
    => Sum(ToMap(file.rows)) = INITIAL_RATING * Cardinality(Ids(file))

\* Both invocations changed the table, both read the file before either
\* opened it for writing, and p had written and closed it before q opened it.
Raced(p, q) ==
    /\ p # q
    /\ pc[p] = "done" /\ pc[q] = "done"
    /\ config[p].ok /\ config[q].ok
    /\ kind(p) \in {"AddPlayer", "Update"} /\ kind(q) \in {"AddPlayer", "Update"}
    /\ 0 < Pos(<<p, "load">>) /\ 0 < Pos(<<q, "load">>)
    /\ 0 < Pos(<<p, "open">>) /\ 0 < Pos(<<q, "open">>)
    /\ Pos(<<p, "load">>) < Pos(<<p, "open">>)
    /\ Pos(<<q, "load">>) < Pos(<<p, "open">>)
    /\ Pos(<<p, "close">>) < Pos(<<q, "open">>)

\* C9: when two changing invocations both read the file before either
\* writes it, both end with success, and the file is what the later writer
\* made of the table both have read: the earlier writer's change is not in it
\* unless the later one made it too.
C9_LastWriterWins ==
    \A p \in Procs : \A q \in Procs :
      Raced(p, q)
      => /\ status[p] = "ok" /\ status[q] = "ok"
         /\ loaded[p] = loaded[q]
         /\ ~file.garbled
         /\ ToMap(file.rows) = mutate(config[q].operation, loaded[p]).data

\* C9 witness: a lost update: `player Alice` and `player Bob` both end
\* with success and the file holds Bob alone
C9_Witness ==
    \E p \in Procs : \E q \in Procs :
      /\ Raced(p, q)
      /\ kind(p) = "AddPlayer" /\ kind(q) = "AddPlayer"
      /\ config[p].operation.player_id = "Alice"
      /\ config[q].operation.player_id = "Bob"
      /\ ToMap(file.rows) #
           mutate(config[q].operation, mutate(config[p].operation, loaded[p]).data).data
      /\ Ids(file) = {"Bob"}

\* C10 (as claimed): every identifier in the file is non-empty text and
\* no identifier is in it twice.
C10_IdsWellFormed ==
    /\ \A i \in 1..Len(file.rows) : file.rows[i][1] # ""
    /\ \A i \in 1..Len(file.rows) : \A j \in 1..Len(file.rows) :
         i # j => file.rows[i][1] # file.rows[j][1]

=============================================================================
